---- MODULE Spec2Model ----
(***************************************************************************)
(* The arena targeting game of src/pages/index.tsx: the component Home,    *)
(* its React state, its two interval handles and the timer callbacks it   *)
(* schedules.  Time is explicit (milliseconds); every event handler and    *)
(* every timer callback is one action, with the state updates it enqueues  *)
(* applied in the same step.  A callback reads React state through the     *)
(* closure of the render that created it, so a timer carries the values   *)
(* its closure captured.  The positions x, y of a target are random and    *)
(* read by the style only; they are left out of the target record.         *)
(***************************************************************************)
EXTENDS Integers, Sequences, FiniteSets, TLC

VARIABLES
  targets,        \* useState<Target[]>([])                       (line 13)
  score,          \* useState(0)                                  (line 14)
  misses,         \* useState(0)                                  (line 15)
  gameActive,     \* useState(false)                              (line 16)
  timeLeft,       \* useState(30)                                 (line 17)
  difficulty,     \* useState('medium')                           (line 18)
  gameTimerRef,   \* useRef(null): handle of the round clock      (line 20)
  targetTimerRef, \* useRef(null): handle of the spawner          (line 21)
  timers,         \* the pending setInterval / setTimeout callbacks
  now,            \* Date.now(), in milliseconds since the page loaded
  nextHandle,     \* the handle the next setInterval returns
  round,          \* history: number of rounds started
  idle,           \* history: time steps spent since the round ended
  ticks,          \* history: ticks of the round clock since the last startGame
  taps,           \* history: taps made since the last startGame
  hitCount,       \* history: targets of this round that were hit
  expiredCount,   \* history: targets of this round that expired un-hit while it was active
  bgTaps,         \* history: background taps made while this round was active
  hitIds,         \* history: hit targets whose expiry callback is still pending
  last            \* history: the operation that made the last step

vars == <<targets, score, misses, gameActive, timeLeft, difficulty, gameTimerRef,
          targetTimerRef, timers, now, nextHandle, round, idle, ticks, taps,
          hitCount, expiredCount, bgTaps, hitIds, last>>

----------------------------------------------------------------------------
(* Bounds of the model *)

MaxRounds == 2      \* rounds started in one behaviour
MaxTaps == 2        \* taps (on targets or on the background) per round
MaxIdle == 1        \* time steps the player waits between two rounds

----------------------------------------------------------------------------
(* Constants of the program *)

Levels == {"easy", "medium", "hard"}

difficultySettings ==
  [easy   |-> [targetDuration |-> 2000, spawnInterval |-> 1500, targetSize |-> 80],
   medium |-> [targetDuration |-> 1500, spawnInterval |-> 1200, targetSize |-> 60],
   hard   |-> [targetDuration |-> 1000, spawnInterval |-> 800,  targetSize |-> 45]]

RoundDuration == 30       \* setTimeLeft(30)
ClockInterval == 1000     \* the round clock's setInterval delay
\* Variant: a removal delay of 2000.
HitRemovalDelayLong == 2 * ClockInterval
HitRemovalDelay == 200    \* the post-hit removal setTimeout delay

NoHandle == 0             \* useRef(null)

RECURSIVE GCD(_, _)
GCD(a, b) == IF b = 0 THEN a ELSE GCD(b, a % b)

RECURSIVE GCDOf(_)
GCDOf(S) == IF S = {} THEN 0
            ELSE LET x == CHOOSE y \in S : TRUE IN GCD(x, GCDOf(S \ {x}))

\* Every delay the program passes to setInterval or setTimeout.
Delays == {ClockInterval, HitRemovalDelay}
          \cup {difficultySettings[l].targetDuration : l \in Levels}
          \cup {difficultySettings[l].spawnInterval : l \in Levels}

\* Time advances in steps of the greatest common divisor of all delays, so
\* that every timer comes due exactly at some step.
Step == GCDOf(Delays)

----------------------------------------------------------------------------
(* Helpers *)

\* Variant: prev.filter(t => t.id === id)
FilterKeep(prev, id) == SelectSeq(prev, LAMBDA t : t.id = id)

\* prev.filter(t => t.id !== id)
FilterOut(prev, id) == SelectSeq(prev, LAMBDA t : t.id # id)

\* prev.map(t => t.id === targetId ? { ...t, hit: true } : t)
MarkHit(prev, id) ==
  [i \in 1..Len(prev) |-> IF prev[i].id = id THEN [prev[i] EXCEPT !.hit = TRUE] ELSE prev[i]]

Present(id) == \E i \in 1..Len(targets) : targets[i].id = id
PresentUnhit(id) == \E i \in 1..Len(targets) : targets[i].id = id /\ ~targets[i].hit
PresentHit(id) == \E i \in 1..Len(targets) : targets[i].id = id /\ targets[i].hit

\* arenaRef.current: the arena div is rendered only when gameActive.
arenaRef == gameActive

IsInterval(tm) == tm.kind \in {"clock", "spawner"}

\* clearInterval(h), guarded by `if (ref.current)`.
ClearInterval(ts, h) ==
  IF h = NoHandle THEN ts ELSE {tm \in ts : ~(IsInterval(tm) /\ tm.handle = h)}

Due(tm) == tm \in timers /\ tm.due <= now

\* The round whose startGame created the timer has ended.
Stale(tm) == tm.round < round \/ ~gameActive

\* A pending callback: what it is, when it comes due, the handle setInterval
\* returned for it (NoHandle for a setTimeout, whose handle the program drops),
\* the target it is about, and what its closure captured: the difficulty and
\* gameActive of the render whose startGame started round r.
Timer(kind, due, handle, target, level, active, r) ==
  [kind |-> kind, due |-> due, handle |-> handle, target |-> target,
   level |-> level, active |-> active, round |-> r]

\* hitIds once callback tm has fired: a target is forgotten with its last callback.
Forget(ids, tm) ==
  IF \E other \in timers \ {tm} : other.target = tm.target /\ ~IsInterval(other)
    THEN ids ELSE ids \ {tm.target}

Last(op, case, stale) == [op |-> op, case |-> case, stale |-> stale]

----------------------------------------------------------------------------
(* Initial state: the component as first rendered *)

Init ==
  /\ targets = <<>>
  /\ score = 0
  /\ misses = 0
  /\ gameActive = FALSE
  /\ timeLeft = RoundDuration
  /\ difficulty = "medium"
  /\ gameTimerRef = NoHandle
  /\ targetTimerRef = NoHandle
  /\ timers = {}
  /\ now = 0
  /\ nextHandle = 1
  /\ round = 0
  /\ idle = 0
  /\ ticks = 0
  /\ taps = 0
  /\ hitCount = 0
  /\ expiredCount = 0
  /\ bgTaps = 0
  /\ hitIds = {}
  /\ last = Last("init", "none", FALSE)

----------------------------------------------------------------------------
(* The pieces of the handlers *)

\* The gameActive that startGame's closure holds: startGame, spawnTargets and
\* the callbacks they create all belong to the render in which START GAME was
\* clicked, and read that render's gameActive.
closureGameActive == gameActive

\* Variant: the expiry callback reads the current gameActive instead.
expiryCountsMissLive(tm) == gameActive

\* Variant: the expiry callback without `if (gameActive)`.
expiryCountsMissAlways(tm) == TRUE

\* `if (gameActive)` in the expiry callback reads the closure's value.
expiryCountsMiss(tm) == tm.active

\* Variant: id: targets.length, read from the closure, where targets is [].
newTargetIdLength == Len(<<>>)

\* id: Date.now()
newTargetId == now

\* Variant: `if (prev <= 0)`.
tickEndsGameLate(prev) == prev <= 0

\* `if (prev <= 1)` in the round clock's updater
tickEndsGame(prev) == prev <= 1

\* Variant: setGameActive(a => !a).
endGameActiveToggled == ~gameActive

\* setGameActive(false) in endGame
endGameActive == FALSE

\* Variant: endGame without clearInterval(targetTimerRef.current).
endGameTimersClockOnly(ts) == ClearInterval(ts, gameTimerRef)

\* The two clearInterval calls of endGame, on the pending callbacks ts.
endGameTimers(ts) == ClearInterval(ClearInterval(ts, gameTimerRef), targetTimerRef)

\* Variant: endGame without setTargets([]).
endGameTargetsKept == targets

\* setTargets([]) in endGame
endGameTargets == <<>>

\* setScore(0), setMisses(0), setTimeLeft(30) in startGame
startGameScore == 0
\* Variant: startGame without setMisses(0).
startGameMissesKept == misses
startGameMisses == 0
\* Variant: setTimeLeft(31).
startGameTimeLeftLong == RoundDuration + 1
startGameTimeLeft == RoundDuration

\* Variant: the onClick without its guard.
targetOnClickUnguarded(t) == TRUE

\* `if (!target.hit)` in the target's onClick
targetOnClickGuard(t) == ~t.hit

\* Variant: the onClick without e.stopPropagation().
propagationNotStopped == FALSE

\* e.stopPropagation() in the target's onClick: the click does not reach the arena.
stopPropagation == TRUE

\* `if (gameActive) setMisses(m => m + 1)` in handleArenaClick
handleArenaClick(m) == IF gameActive THEN m + 1 ELSE m

----------------------------------------------------------------------------
(* Actions *)

\* Variant: the difficulty buttons rendered during a round as well.
SetDifficultyAnytime(level) ==
  /\ level # difficulty
  /\ difficulty' = level
  /\ last' = Last("setDifficulty", "none", FALSE)
  /\ UNCHANGED <<targets, score, misses, gameActive, timeLeft, gameTimerRef,
                 targetTimerRef, timers, now, nextHandle, round, idle, ticks, taps,
                 hitCount, expiredCount, bgTaps, hitIds>>

\* onClick={() => setDifficulty(level)}: the buttons are rendered only when !gameActive.
SetDifficulty(level) ==
  /\ ~gameActive
  /\ level # difficulty
  /\ difficulty' = level
  /\ last' = Last("setDifficulty", "none", FALSE)
  /\ UNCHANGED <<targets, score, misses, gameActive, timeLeft, gameTimerRef,
                 targetTimerRef, timers, now, nextHandle, round, idle, ticks, taps,
                 hitCount, expiredCount, bgTaps, hitIds>>

\* startGame (with spawnTargets): the START GAME button is rendered only when !gameActive.
startGame ==
  /\ ~gameActive
  /\ round < MaxRounds
  /\ score' = startGameScore
  /\ misses' = startGameMisses
  /\ timeLeft' = startGameTimeLeft
  /\ targets' = <<>>
  /\ gameActive' = TRUE
  /\ gameTimerRef' = nextHandle
  /\ targetTimerRef' = nextHandle + 1
  /\ nextHandle' = nextHandle + 2
  /\ timers' = timers \cup
       {Timer("clock", now + ClockInterval, nextHandle, 0, difficulty,
              closureGameActive, round + 1),
        Timer("spawner", now + difficultySettings[difficulty].spawnInterval,
              nextHandle + 1, 0, difficulty, closureGameActive, round + 1)}
  /\ round' = round + 1
  /\ idle' = 0
  /\ ticks' = 0
  /\ taps' = 0
  /\ hitCount' = 0
  /\ expiredCount' = 0
  /\ bgTaps' = 0
  /\ hitIds' = hitIds
  /\ last' = Last("startGame", IF score > 0 \/ misses > 0 THEN "dirty" ELSE "clean", FALSE)
  /\ UNCHANGED <<difficulty, now>>

\* Time passes: no callback is due.  Before the first round no timer exists and
\* waiting changes nothing but the clock, so the player starts at once; between
\* two rounds the player waits at most MaxIdle steps; after the last round time
\* runs on until every pending callback has fired.
Advance ==
  /\ \A tm \in timers : tm.due > now
  /\ \/ gameActive
     \/ round > 0 /\ idle < MaxIdle
     \/ round = MaxRounds /\ timers # {}
  /\ now' = now + Step
  /\ idle' = IF gameActive THEN idle ELSE idle + 1
  /\ last' = Last("advance", "none", FALSE)
  /\ UNCHANGED <<targets, score, misses, gameActive, timeLeft, difficulty,
                 gameTimerRef, targetTimerRef, timers, nextHandle, round, ticks, taps,
                 hitCount, expiredCount, bgTaps, hitIds>>

\* The round clock's interval callback, with endGame when the updater calls it.
ClockTick(tm) ==
  /\ Due(tm)
  /\ tm.kind = "clock"
  /\ IF tickEndsGame(timeLeft)
       THEN \* endGame(); return 0
            /\ timeLeft' = 0
            /\ gameActive' = endGameActive
            /\ timers' = endGameTimers((timers \ {tm}) \cup
                                         {[tm EXCEPT !.due = tm.due + ClockInterval]})
            /\ targets' = endGameTargets
            /\ last' = Last("clock", "end", Stale(tm))
       ELSE /\ timeLeft' = timeLeft - 1
            /\ timers' = (timers \ {tm}) \cup {[tm EXCEPT !.due = tm.due + ClockInterval]}
            /\ last' = Last("clock", "tick", Stale(tm))
            /\ UNCHANGED <<gameActive, targets>>
  /\ ticks' = ticks + 1
  /\ UNCHANGED <<score, misses, difficulty, gameTimerRef, targetTimerRef, now,
                 nextHandle, round, idle, taps, hitCount, expiredCount, bgTaps, hitIds>>

\* endGame invoked when the round is already inactive: React may run the
\* updater of setTimeLeft, which calls endGame, more than once.
endGame ==
  /\ ~gameActive
  /\ round > 0
  /\ gameActive' = endGameActive
  /\ timers' = endGameTimers(timers)
  /\ targets' = endGameTargets
  /\ last' = Last("endGame", "again", FALSE)
  /\ UNCHANGED <<score, misses, timeLeft, difficulty, gameTimerRef, targetTimerRef,
                 now, nextHandle, round, idle, ticks, taps, hitCount, expiredCount,
                 bgTaps, hitIds>>

\* The spawner's interval callback.
SpawnTick(tm) ==
  /\ Due(tm)
  /\ tm.kind = "spawner"
  /\ LET settings == difficultySettings[tm.level]
         again == [tm EXCEPT !.due = tm.due + settings.spawnInterval]
         newTarget == [id |-> newTargetId, active |-> TRUE, hit |-> FALSE]
     IN IF arenaRef
          THEN /\ targets' = Append(targets, newTarget)
               /\ timers' = (timers \ {tm}) \cup
                    {again,
                     Timer("expiry", now + settings.targetDuration, NoHandle,
                           newTarget.id, tm.level, tm.active, tm.round)}
               /\ last' = Last("spawn", "spawned", Stale(tm))
          ELSE /\ timers' = (timers \ {tm}) \cup {again}
               /\ last' = Last("spawn", "noArena", Stale(tm))
               /\ UNCHANGED targets
  /\ UNCHANGED <<score, misses, gameActive, timeLeft, difficulty, gameTimerRef,
                 targetTimerRef, now, nextHandle, round, idle, ticks, taps, hitCount,
                 expiredCount, bgTaps, hitIds>>

\* The expiry timeout of a target.
ExpireTarget(tm) ==
  /\ Due(tm)
  /\ tm.kind = "expiry"
  /\ targets' = FilterOut(targets, tm.target)
  /\ misses' = IF expiryCountsMiss(tm) THEN misses + 1 ELSE misses
  /\ timers' = timers \ {tm}
  /\ expiredCount' = IF ~Stale(tm) /\ PresentUnhit(tm.target)
                       THEN expiredCount + 1 ELSE expiredCount
  /\ hitIds' = Forget(hitIds, tm)
  /\ last' = Last("expiry",
                  IF PresentUnhit(tm.target) THEN "unhit"
                  ELSE IF PresentHit(tm.target) THEN "hit"
                  ELSE IF tm.target \in hitIds THEN "hitGone" ELSE "gone",
                  Stale(tm))
  /\ UNCHANGED <<score, gameActive, timeLeft, difficulty, gameTimerRef,
                 targetTimerRef, now, nextHandle, round, idle, ticks, taps, hitCount, bgTaps>>

\* The removal timeout that hitTarget schedules.
RemoveHitTarget(tm) ==
  /\ Due(tm)
  /\ tm.kind = "removal"
  /\ targets' = FilterOut(targets, tm.target)
  /\ timers' = timers \ {tm}
  /\ hitIds' = Forget(hitIds, tm)
  /\ last' = Last("removal", IF Present(tm.target) THEN "present" ELSE "gone", Stale(tm))
  /\ UNCHANGED <<score, misses, gameActive, timeLeft, difficulty, gameTimerRef,
                 targetTimerRef, now, nextHandle, round, idle, ticks, taps, hitCount,
                 expiredCount, bgTaps>>

\* A tap on the i-th rendered target: its onClick, then the arena's onClick
\* if the click propagates.
TapTarget(i) ==
  /\ gameActive
  /\ i \in 1..Len(targets)
  /\ taps < MaxTaps
  /\ LET target == targets[i]
         counts == targetOnClickGuard(target)
         bubbled == IF stopPropagation THEN misses ELSE handleArenaClick(misses)
     IN /\ IF counts
             THEN \* hitTarget(target.id)
                  /\ targets' = MarkHit(targets, target.id)
                  /\ score' = score + 1
                  /\ timers' = timers \cup
                       {Timer("removal", now + HitRemovalDelay, NoHandle, target.id,
                              difficulty, gameActive, round)}
             ELSE UNCHANGED <<targets, score, timers>>
        /\ misses' = bubbled
        /\ hitCount' = IF target.hit THEN hitCount ELSE hitCount + 1
        /\ hitIds' = hitIds \cup {target.id}
        /\ last' = Last("tapTarget", IF target.hit THEN "again" ELSE "first", FALSE)
  /\ taps' = taps + 1
  /\ UNCHANGED <<gameActive, timeLeft, difficulty, gameTimerRef, targetTimerRef,
                 now, nextHandle, round, idle, ticks, expiredCount, bgTaps>>

\* A tap on the arena background: handleArenaClick.
TapArena ==
  /\ taps < MaxTaps
  /\ misses' = handleArenaClick(misses)
  /\ bgTaps' = IF gameActive THEN bgTaps + 1 ELSE bgTaps
  /\ taps' = taps + 1
  /\ last' = Last("tapArena", IF gameActive THEN "active" ELSE "inactive", FALSE)
  /\ UNCHANGED <<targets, score, gameActive, timeLeft, difficulty, gameTimerRef,
                 targetTimerRef, timers, now, nextHandle, round, idle, ticks, hitCount,
                 expiredCount, hitIds>>

Next ==
  \/ \E level \in Levels : SetDifficulty(level)
  \/ startGame
  \/ Advance
  \/ \E tm \in timers : ClockTick(tm)
  \/ endGame
  \/ \E tm \in timers : SpawnTick(tm)
  \/ \E tm \in timers : ExpireTarget(tm)
  \/ \E tm \in timers : RemoveHitTarget(tm)
  \/ \E i \in 1..Len(targets) : TapTarget(i)
  \/ TapArena

Spec == Init /\ [][Next]_vars

Fires(tm) == ClockTick(tm) \/ SpawnTick(tm) \/ ExpireTarget(tm) \/ RemoveHitTarget(tm)

\* The event loop can go on: a callback that is due can run, or time can pass.
CanProceed == ENABLED (Advance \/ \E tm \in timers : Fires(tm))

----------------------------------------------------------------------------
(* Properties *)

RoundEnded == ~gameActive /\ round > 0

\* C1: when the expiry callback of a target fires while the round that spawned
\* it is still active and the target is live and un-hit, the target leaves the
\* live set and misses grows by exactly 1.
C1_ExpiryCountsMiss ==
  [][\A tm \in timers :
       (ExpireTarget(tm) /\ ~Stale(tm) /\ PresentUnhit(tm.target))
         => /\ misses' = misses + 1
            /\ \A i \in 1..Len(targets') : targets'[i].id # tm.target]_vars

\* C2: no callback about a target that was counted as a hit increments misses,
\* whether the target is still live or already removed when it fires.
C2_HitNeverMiss ==
  [][\A tm \in timers :
       ((ExpireTarget(tm) \/ RemoveHitTarget(tm)) /\ tm.target \in hitIds)
         => misses' = misses]_vars

\* The expiry callback of a hit target fired in its own round while the target
\* was still live.
C2_Witness ==
  /\ last.op = "expiry"
  /\ last.case = "hit"
  /\ ~last.stale
  /\ score > 0

\* C3: a timer callback that fires after endGame has run for the round that
\* scheduled it (the round inactive, or a later round started) changes neither
\* score, misses nor the live targets.
C3_StaleCallbacksInert ==
  [][\A tm \in timers :
       (Fires(tm) /\ Stale(tm))
         => (score' = score /\ misses' = misses /\ targets' = targets)]_vars

\* An expiry callback of an ended round fired in the next round, with targets live.
C3_Witness ==
  /\ last.op = "expiry"
  /\ last.stale
  /\ gameActive
  /\ Len(targets) > 0

\* C4: at the end of every round score + misses is the number of targets that
\* were hit or expired un-hit during the round plus the background taps made
\* during it, and neither counter is negative.
C4_Accounting ==
  RoundEnded => /\ score + misses = hitCount + expiredCount + bgTaps
                /\ score >= 0
                /\ misses >= 0

\* C5: startGame leaves score = 0, misses = 0, timeLeft = 30, no live target
\* and the round active, whatever the previous round left.
C5_StartResets ==
  [][startGame => /\ score' = 0
                  /\ misses' = 0
                  /\ timeLeft' = 30
                  /\ targets' = <<>>
                  /\ gameActive']_vars

\* A round was started after a round that had ended with points or misses.
C5_Witness ==
  /\ last.op = "startGame"
  /\ last.case = "dirty"
  /\ round > 1

\* C6: a tap on a target increments score once: the first tap by exactly 1, and
\* a tap on a target that is already hit changes neither score, misses nor the
\* live targets.
C6_DoubleTapCountsOnce ==
  [][\A i \in 1..Len(targets) :
       TapTarget(i) =>
         IF targets[i].hit
           THEN score' = score /\ misses' = misses /\ targets' = targets
           ELSE score' = score + 1]_vars

\* A target that was already hit and still live was tapped again.
C6_Witness ==
  /\ last.op = "tapTarget"
  /\ last.case = "again"
  /\ score = 1

\* C7: a tick of the round clock in an active round decrements timeLeft by
\* exactly 1, and the round is never active with timeLeft = 0.
C7_TickDecrementsAndEnds ==
  [][/\ \A tm \in timers : (ClockTick(tm) /\ gameActive) => timeLeft' = timeLeft - 1
     /\ ~(gameActive' /\ timeLeft' = 0)]_vars

\* The tick that brought timeLeft to 0 ended the round.
C7_Witness ==
  /\ last.op = "clock"
  /\ last.case = "end"
  /\ timeLeft = 0
  /\ ~gameActive

\* C8: whenever the round is inactive there is no live target and no spawner
\* is running, so no target appears between endGame and the next startGame.
C8_InactiveMeansEmpty ==
  ~gameActive => /\ targets = <<>>
                 /\ \A tm \in timers : tm.kind # "spawner"

\* A round has ended, time has passed and callbacks of that round are still pending.
C8_Witness ==
  /\ RoundEnded
  /\ idle > 0
  /\ \E tm \in timers : tm.kind = "expiry"

\* C9: a background tap in an active round increments misses by exactly 1 and
\* changes nothing else; in an inactive round it changes nothing; a tap on a
\* target leaves misses alone.
C9_BackgroundTap ==
  [][/\ TapArena =>
          /\ misses' = IF gameActive THEN misses + 1 ELSE misses
          /\ UNCHANGED <<targets, score, gameActive, timeLeft, difficulty,
                         gameTimerRef, targetTimerRef, timers>>
     /\ \A i \in 1..Len(targets) : TapTarget(i) => misses' = misses]_vars

\* The background was tapped in an active round after a target had been hit.
C9_Witness ==
  /\ last.op = "tapArena"
  /\ last.case = "active"
  /\ misses = 1
  /\ score = 1

\* C10: when a round at easy difficulty ends without any tap, score = 0 and
\* misses is the number of its targets that expired before it ended.
C10_EasyNoTaps ==
  (last.op = "clock" /\ last.case = "end" /\ difficulty = "easy" /\ taps = 0)
    => (score = 0 /\ misses = expiredCount)

\* C11: in the first round (started at t = 0) at medium difficulty, one target
\* is live once the spawner has fired at t = 1200 and, with no tap, two are
\* live once it has fired at t = 2400; a tap on the first target at t = 1300
\* makes score 1, the target stays live until its removal callback fires at
\* t = 1500, and its expiry callback does not increment misses.
C11_MediumScenario ==
  [][(round' = 1 /\ gameActive' /\ difficulty' = "medium") =>
       LET spawned == \A tm \in timers' : tm.kind = "spawner" => tm.due > now'
           first == 1200
           removalAt1500 == \E tm \in timers' :
                              tm.kind = "removal" /\ tm.target = first /\ tm.due = 1500
       IN /\ (now' = 1200 /\ spawned) => Len(targets') = 1
          /\ (now' = 2400 /\ spawned /\ taps' = 0) => Len(targets') = 2
          /\ (now' = 1300 /\ last'.op = "tapTarget" /\ last'.case = "first")
               => (score' = 1 /\ removalAt1500)
          /\ removalAt1500
               => (score' = 1 /\ \E i \in 1..Len(targets') :
                                   targets'[i].id = first /\ targets'[i].hit)
          /\ \A tm \in timers :
               (RemoveHitTarget(tm) /\ tm.target = first /\ tm.due = 1500)
                 => (now = 1500 /\ \A i \in 1..Len(targets') : targets'[i].id # first)
          /\ \A tm \in timers :
               (ExpireTarget(tm) /\ tm.target = first /\ first \in hitIds)
                 => misses' = misses]_vars

\* The first target of a medium round, tapped at t = 1300, has just been
\* removed at t = 1500.
C11_Witness ==
  /\ round = 1
  /\ gameActive
  /\ difficulty = "medium"
  /\ now = 1500
  /\ last.op = "removal"
  /\ last.case = "present"
  /\ score = 1
  /\ targets = <<>>

\* C12: every started round ends after exactly 30 ticks.  While the round is
\* active fewer than 30 ticks were made, timeLeft is 30 minus their number,
\* the next tick of its clock is pending and due within 1000 ms, and the event
\* loop can proceed (so under fair firing the 30th tick comes); once the round
\* has ended exactly 30 ticks were made, timeLeft is 0 and no round clock is
\* pending.
C12_RoundEnds ==
  /\ gameActive =>
       /\ ticks < 30
       /\ timeLeft = 30 - ticks
       /\ \E tm \in timers : /\ tm.kind = "clock"
                              /\ tm.round = round
                              /\ tm.due >= now
                              /\ tm.due <= now + 1000
       /\ CanProceed
  /\ RoundEnded =>
       /\ ticks = 30
       /\ timeLeft = 0
       /\ \A tm \in timers : tm.kind # "clock"

\* The second round has ended after its 30 ticks.
C12_Witness ==
  /\ RoundEnded
  /\ round = 2
  /\ ticks = 30
  /\ last.op = "clock"

\* C13: endGame invoked while the round is inactive leaves score, misses,
\* timeLeft, gameActive, the live targets and the pending callbacks unchanged.
C13_EndGameIdempotent ==
  [][endGame => UNCHANGED <<score, misses, timeLeft, gameActive, targets, timers,
                            gameTimerRef, targetTimerRef>>]_vars

\* endGame ran again after a round with points, while callbacks of that round
\* were still pending.
C13_Witness ==
  /\ last.op = "endGame"
  /\ score > 0
  /\ timers # {}

\* C14: when the expiry callback fires for a target that is hit and still
\* live, it changes neither the live targets nor misses.
C14_ExpiryOfHitIsNoOp ==
  [][\A tm \in timers :
       (ExpireTarget(tm) /\ PresentHit(tm.target))
         => (targets' = targets /\ misses' = misses)]_vars

\* C15: the difficulty does not change while a round is active, and every
\* spawn and expiry of the round uses the interval and the lifetime of that
\* difficulty: each pending spawner or expiry callback of the round captured
\* it, an expiry is due one lifetime after its target was spawned, and a
\* spawner tick schedules the next one spawn interval later.
C15_DifficultyFixed ==
  [][/\ (gameActive /\ gameActive') => difficulty' = difficulty
     /\ gameActive' =>
          \A tm \in timers' :
            (tm.round = round' /\ tm.kind \in {"spawner", "expiry"})
              => /\ tm.level = difficulty'
                 /\ tm.kind = "expiry"
                      => tm.due = tm.target + difficultySettings[difficulty'].targetDuration
     /\ \A tm \in timers :
          (SpawnTick(tm) /\ ~Stale(tm))
            => [tm EXCEPT !.due = tm.due + difficultySettings[difficulty].spawnInterval]
                 \in timers']_vars

\* A target of the second round is live while a callback of the first round,
\* played at another difficulty, is still pending.
C15_Witness ==
  /\ gameActive
  /\ round = 2
  /\ \E tm \in timers : tm.kind = "expiry" /\ tm.round = 2
  /\ \E tm \in timers : tm.round = 1 /\ tm.level # difficulty

\* C16: exactly one round clock and one spawner are running while the round
\* is active, under the handles the refs hold, and none while it is inactive.
C16_OneIntervalEach ==
  LET clocks == {tm \in timers : tm.kind = "clock"}
      spawners == {tm \in timers : tm.kind = "spawner"}
  IN IF gameActive
       THEN /\ Cardinality(clocks) = 1
            /\ Cardinality(spawners) = 1
            /\ \A tm \in clocks : tm.handle = gameTimerRef
            /\ \A tm \in spawners : tm.handle = targetTimerRef
       ELSE clocks = {} /\ spawners = {}

\* A second round is running: startGame has overwritten both handles.
C16_Witness ==
  /\ gameActive
  /\ round = 2
  /\ gameTimerRef = 3
  /\ targetTimerRef = 4
  /\ ticks > 0

\* C17: endGame and every step taken while the round is inactive leave score
\* and misses as they were: a step that ends in an inactive round changes
\* neither.
C17_FinalScoreKept ==
  [][~gameActive' => (score' = score /\ misses' = misses)]_vars

\* An expiry callback fired after the round had ended with points.
C17_Witness ==
  /\ ~gameActive
  /\ last.op = "expiry"
  /\ last.stale
  /\ score > 0

\* C18: the live set never holds more than 2 targets, and every live target
\* leaves it: its expiry callback is pending, due one lifetime after the
\* spawn and not overdue, and the event loop can proceed.
C18_TargetsLeave ==
  /\ Len(targets) <= 2
  /\ \A i \in 1..Len(targets) :
       \E tm \in timers :
         /\ tm.kind = "expiry"
         /\ tm.target = targets[i].id
         /\ tm.due = targets[i].id + difficultySettings[difficulty].targetDuration
         /\ tm.due >= now
  /\ targets # <<>> => CanProceed

\* Two targets are live at hard difficulty in the second round.
C18_Witness ==
  /\ Len(targets) = 2
  /\ difficulty = "hard"
  /\ round = 2

====
